---------------------------- MODULE Spec2Model ----------------------------
(***************************************************************************)
(* A model of the AI mockup generator front-end: the App component's       *)
(* handlers (handleGenerate, handleGeneratePalette, handleImageSelect,     *)
(* handleImageEdit, showNotification) and the service layer they call      *)
(* (generateAppScreens, generateLogo, generateColorPalette, editImage).    *)
(*                                                                         *)
(* JavaScript runs one task to completion: a handler, or the continuation  *)
(* of an await together with every promise reaction it triggers, is one    *)
(* atomic action.  A request sent to the hosted model is in flight from    *)
(* the action that issues it to the action in which its response arrives.  *)
(***************************************************************************)
EXTENDS Naturals, Sequences, FiniteSets, TLC

\* ------------------------------------------------------------------ bounds
\* Longest list of screen names the extraction request returns.
MaxScreens == 3
\* Longest list of screen names in a batch followed answer by answer.
MaxAnsweredScreens == 2

\* Most user actions (clicks, selections, edits of a field) in one run.
MaxUserActions == 3
\* Most advances of the clock in one run.
MaxTicks == 1
\* Longest code text put through the clean-up character by character.
MaxTextLen == 6

\* ------------------------------------------------------------- plain values
\* null in a string-typed slot, and null in an object-typed slot.
NULL == "null"
NullObject == [null |-> TRUE]

\* The default description of the prompt field and the value of a cleared one.
DefaultPrompt == "A food delivery app"
Prompts == {"", DefaultPrompt}

\* Screen names the extraction may return, in the order of its answer.
ScreenNamePool == <<"Login Screen", "User Dashboard", "Settings Page", "Profile Page">>

\* The lists extractScreenNames can resolve with (a missing list reads as []).
ExtractedLists == {SubSeq(ScreenNamePool, 1, n) : n \in 0..MaxScreens}

Kinds == {"image", "react", "flutter"}

\* Inline image bytes of a response, and the code text of one.
ImageBytes == "iVBORw0KGgo"
LogoBytes == "R0lGODlhAQAB"

\* A JSON string value, as its sequence of characters, and an absent field.
Str(chars) == [type |-> "string", chars |-> chars]
Undefined == [type |-> "undefined"]

InitialPalette ==
    [primary |-> Str(<<"#", "A", "7", "8", "B", "F", "A">>),
     secondary |-> Str(<<"#", "2", "D", "D", "4", "B", "F">>),
     accent |-> Str(<<"#", "F", "5", "9", "E", "0", "B">>)]

\* Delay of the timer that removes a notification, in milliseconds.
NotificationTimeout == 5000

VARIABLES
    \* ---- App component state (useState)
    notifications,       \* Notification[]: <<[id, message, type]>>
    prompt,
    palette,
    generatedScreens,    \* GeneratedScreen[]
    logoImageUrl,        \* string | null
    isLoading,
    isGeneratingPalette,
    \* ---- browser
    now,                 \* Date.now()
    timers,              \* setTimeout callbacks not yet run, in registration order
    \* ---- the handleGenerate call and what it started
    handleGeneratePc,    \* "idle" | "awaiting" (its Promise.all is pending) | "done"
    extractReq,          \* the extractScreenNames request
    screenNames,         \* what extractScreenNames resolved with
    req,                 \* req[i][kind]: the request of that kind for screenNames[i]
    screenPromises,      \* screenPromises[i]: the per-screen Promise.all
    appScreens,          \* the promise generateAppScreens returned
    logoReq,             \* the generateLogo request
    orphanExtracts,      \* extraction requests of earlier handleGenerate calls, in flight
    orphanReqs,          \* image, code and logo requests of earlier calls, in flight
    sent,                \* how many requests of each sort the current call has sent to the model
    generation,          \* how many handleGenerate calls have passed their checks and started generating
    resultsOf,           \* the call (by its number) whose results are displayed; 0 when none are
    \* ---- the handleGeneratePalette call
    paletteReq,          \* the generateColorPalette request and the response it got
    palettePromise,      \* the promise generateColorPalette returned
    \* ---- the image editor
    originalImage,       \* OriginalImage | null
    editPrompt,
    editedImage,         \* string | null
    isEditing,
    fileReads,           \* FileReader loads in flight (their onloadend is pending)
    edits,               \* handleImageEdit calls awaiting editImage, with its request
    \* ---- one batch of generateAppScreens with the responses of the model
    extractedNames,      \* the extracted screen names of the batch
    responses,           \* responses[i][kind]: what the model answered, once it did
    calls,               \* calls[i][kind]: the promise of the generator called for extractedNames[i]
    screenResults,       \* screenResults[i]: the promise of the map callback for extractedNames[i]
    batch,               \* the promise of generateAppScreens
    \* ---- one model answer passing through the code clean-up
    codeText,            \* [language, text]: the text of a code response
    cleaned,             \* its clean-up, and the clean-up of that
    \* ---- bound on the user's actions
    userActions

uiVars == <<notifications, prompt, palette, generatedScreens, logoImageUrl, isLoading, isGeneratingPalette>>
paletteVars == <<paletteReq, palettePromise>>
browserVars == <<now, timers>>
genVars == <<handleGeneratePc, extractReq, screenNames, req, screenPromises, appScreens, logoReq,
             orphanExtracts, orphanReqs, sent, generation, resultsOf>>
editorVars == <<originalImage, editPrompt, editedImage, isEditing, fileReads, edits>>
serviceVars == <<extractedNames, responses, calls, screenResults, batch, codeText, cleaned>>
vars == <<uiVars, browserVars, genVars, paletteVars, editorVars, serviceVars, userActions>>

\* ------------------------------------------------------------------ promises
Pending == [status |-> "pending", value |-> NULL, reason |-> NULL]
NotCalled == [status |-> "none", value |-> NULL, reason |-> NULL]
Fulfilled(v) == [status |-> "fulfilled", value |-> v, reason |-> NULL]
Rejected(e) == [status |-> "rejected", value |-> NULL, reason |-> e]
Settled(p) == p.status \in {"fulfilled", "rejected"}

\* ------------------------------------------------------------ error messages
ExtractError == "Failed to parse app description. Please try rephrasing your idea."
NoScreensError == "Could not identify any screens from your description. Please be more specific about the pages you need, e.g., 'login page', 'dashboard'."
LogoError == "Failed to generate a logo for the app."
NoScreensGeneratedError == "Failed to generate any screens. Please try refining your prompt."
EmptyPromptError == "Please enter an app description."
NoPaletteError == "Please generate a color palette first."

\* The message each per-screen generator rejects with (its catch block).
RequestError(kind, screenName) ==
    CASE kind = "image" -> "Failed to generate UI for " \o screenName \o "."
      [] kind = "react" -> "Failed to generate React code for \"" \o screenName \o "\"."
      [] kind = "flutter" -> "Failed to generate Flutter code for \"" \o screenName \o "\"."

\* What each generator resolves with.
ImageUrl(bytes) == "data:image/png;base64," \o bytes
ReactCode(screenName) == [language |-> "react", component |-> screenName]
FlutterCode(screenName) == [language |-> "flutter", component |-> screenName]


\* --------------------------------------------------------------- notifications
\* A variant that drops the type and shows every notification as a success.
showNotificationUntyped(st, message, type) ==
    LET newId == now
    IN  [notifications |-> Append(st.notifications, [id |-> newId, message |-> message, type |-> "success"]),
         timers |-> Append(st.timers, [id |-> newId, due |-> now + NotificationTimeout])]

\* showNotification on the pair st = [notifications, timers]: append the
\* notification under the id Date.now() and register its removal timer.
showNotification(st, message, type) ==
    LET newId == now
    IN  [notifications |-> Append(st.notifications, [id |-> newId, message |-> message, type |-> type]),
         timers |-> Append(st.timers, [id |-> newId, due |-> now + NotificationTimeout])]

\* removeNotification: drop every notification carrying the id.
removeNotification(list, id) == SelectSeq(list, LAMBDA n : n.id # id)

\* failedScreenReasons.slice(0, 2).join(', ')
JoinFirstTwo(reasons) ==
    IF Len(reasons) = 0 THEN ""
    ELSE IF Len(reasons) = 1 THEN reasons[1]
    ELSE reasons[1] \o ", " \o reasons[2]

\* ------------------------------------------------------- generateAppScreens
AllPending == [image |-> "pending", react |-> "pending", flutter |-> "pending"]

\* A variant that aborts the siblings of a request that rejects.
SettleRequestAbortingSiblings(r, kind, outcome) ==
    [k \in Kinds |-> IF k = kind THEN outcome
                     ELSE IF outcome = "rejected" /\ r[k] = "pending" THEN "aborted"
                     ELSE r[k]]

\* One request of a screen settles; the other two are left as they are.
SettleRequest(r, kind, outcome) == [r EXCEPT ![kind] = outcome]

\* The screen record the map callback returns once its three awaits are in.
ScreenRecord(name) ==
    [title |-> name,
     imageUrl |-> ImageUrl(ImageBytes),
     code |-> [react |-> ReactCode(name), flutter |-> FlutterCode(name)]]

\* A variant that waits for all three and assembles the record regardless.
ScreenPromiseIgnoringRejections(p, r, kind, name) ==
    IF p.status # "pending" THEN p
    ELSE IF \A k \in Kinds : r[k] # "pending" THEN Fulfilled(ScreenRecord(name))
    ELSE p

\* A variant in which only the image request can fail the screen.
ScreenPromiseImageOnly(p, r, kind, name) ==
    IF p.status # "pending" THEN p
    ELSE IF r[kind] = "rejected" /\ kind = "image" THEN Rejected(RequestError(kind, name))
    ELSE IF \A k \in Kinds : r[k] # "pending" THEN Fulfilled(ScreenRecord(name))
    ELSE p

\* The per-screen `await Promise.all([image, react, flutter])` after the request
\* `kind` of the screen settled, r being the screen's requests after it: the
\* first rejection rejects the screen, the third fulfilment fulfils it.
ScreenPromiseAll(p, r, kind, name) ==
    IF p.status # "pending" THEN p
    ELSE IF r[kind] = "rejected" THEN Rejected(RequestError(kind, name))
    ELSE IF \A k \in Kinds : r[k] = "fulfilled" THEN Fulfilled(ScreenRecord(name))
    ELSE p

\* A variant that puts each entry at the front of its list (unshift for push).
RECURSIVE CollectResultsUnshift(_)
CollectResultsUnshift(results) ==
    IF results = <<>> THEN [successfulScreens |-> <<>>, failedScreenReasons |-> <<>>]
    ELSE LET n == Len(results)
             rest == CollectResultsUnshift(SubSeq(results, 1, n - 1))
             result == results[n]
         IN  IF result.status = "fulfilled"
             THEN [rest EXCEPT !.successfulScreens = <<result.value>> \o @]
             ELSE [rest EXCEPT !.failedScreenReasons = <<result.reason>> \o @]

\* A variant that puts each failure reason at the front of its list.
RECURSIVE CollectResultsFailuresUnshift(_)
CollectResultsFailuresUnshift(results) ==
    IF results = <<>> THEN [successfulScreens |-> <<>>, failedScreenReasons |-> <<>>]
    ELSE LET n == Len(results)
             rest == CollectResultsFailuresUnshift(SubSeq(results, 1, n - 1))
             result == results[n]
         IN  IF result.status = "fulfilled"
             THEN [rest EXCEPT !.successfulScreens = Append(@, result.value)]
             ELSE [rest EXCEPT !.failedScreenReasons = <<result.reason>> \o @]

\* results.forEach(...): the fulfilled values and the rejection messages, each
\* pushed in the order of the results.
RECURSIVE CollectResults(_)
CollectResults(results) ==
    IF results = <<>> THEN [successfulScreens |-> <<>>, failedScreenReasons |-> <<>>]
    ELSE LET n == Len(results)
             rest == CollectResults(SubSeq(results, 1, n - 1))
             result == results[n]
         IN  IF result.status = "fulfilled"
             THEN [rest EXCEPT !.successfulScreens = Append(@, result.value)]
             ELSE [rest EXCEPT !.failedScreenReasons =
                      Append(@, IF result.reason = "" THEN "An unknown screen generation error occurred."
                                ELSE result.reason)]

\* A variant that aggregates with Promise.all: the first rejected screen
\* rejects the whole batch.
AppScreensPromiseAll(promise, results) ==
    IF promise.status # "pending" THEN promise
    ELSE IF \E i \in DOMAIN results : results[i].status = "rejected"
    THEN Rejected(results[CHOOSE i \in DOMAIN results : results[i].status = "rejected"].reason)
    ELSE IF \A i \in DOMAIN results : Settled(results[i])
    THEN Fulfilled(CollectResults(results))
    ELSE promise

\* `await Promise.allSettled(screenPromises)` and the return after it: the
\* promise of generateAppScreens once the screen promises are `results`.
AppScreensAllSettled(promise, results) ==
    IF promise.status = "pending" /\ \A i \in DOMAIN results : Settled(results[i])
    THEN Fulfilled(CollectResults(results))
    ELSE promise

\* A variant without the check for an empty list.
AppScreensUnchecked(promise, names) == promise

\* generateAppScreens after extractScreenNames resolved with `names`.
AppScreensAfterExtract(promise, names) ==
    IF names = <<>> THEN Rejected(NoScreensError) ELSE promise

\* ------------------------------------------------------------ handleGenerate
\* The rest of handleGenerate once its `await Promise.all([screens, logo])`
\* settles, a being the generateAppScreens promise and l the logo request:
\* the try body after the await, the catch block and the finally block.
HandleGenerateResume(a, l) ==
    LET st0 == [notifications |-> notifications, timers |-> timers]
        caught(e) == showNotification(st0, IF e = "" THEN "An unknown error occurred during generation." ELSE e, "error")
        succ == a.value.successfulScreens
        failed == a.value.failedScreenReasons
        st1 == IF Len(succ) > 0
               THEN showNotification(st0, "Successfully generated " \o ToString(Len(succ)) \o " screen(s)!", "success")
               ELSE st0
        st2 == IF Len(failed) > 0
               THEN showNotification(st1, "Could not generate some screens: " \o JoinFirstTwo(failed), "error")
               ELSE st1
        st3 == IF Len(succ) = 0 /\ Len(failed) > 0
               THEN showNotification(st2, NoScreensGeneratedError, "error")
               ELSE st2
        finish(st) == /\ notifications' = st.notifications
                      /\ timers' = st.timers
                      /\ isLoading' = FALSE
                      /\ handleGeneratePc' = "done"
    IN  IF handleGeneratePc # "awaiting"
        THEN UNCHANGED <<notifications, timers, isLoading, handleGeneratePc, generatedScreens, logoImageUrl,
                         resultsOf>>
        ELSE IF a.status = "rejected"
        THEN finish(caught(a.reason)) /\ UNCHANGED <<generatedScreens, logoImageUrl, resultsOf>>
        ELSE IF l = "rejected"
        THEN finish(caught(LogoError)) /\ UNCHANGED <<generatedScreens, logoImageUrl, resultsOf>>
        ELSE IF a.status = "fulfilled" /\ l = "fulfilled"
        THEN /\ generatedScreens' = succ
             /\ logoImageUrl' = ImageUrl(LogoBytes)
             /\ resultsOf' = generation
             /\ finish(st3)
        ELSE UNCHANGED <<notifications, timers, isLoading, handleGeneratePc, generatedScreens, logoImageUrl,
                         resultsOf>>

\* In-flight requests of the current call, as counts.
PendingRequests ==
    Cardinality({<<i, k>> \in (DOMAIN req) \X Kinds : req[i][k] = "pending"})
    + (IF logoReq = "pending" THEN 1 ELSE 0)

\* A variant that leaves the results of the previous generation on display
\* while the new one runs (without setGeneratedScreens([]) and setLogoImageUrl(null)).
HandleGenerateKeepingResults ==
    /\ ~isLoading
    /\ UNCHANGED editorVars
    /\ IF prompt = ""
       THEN LET st == showNotification([notifications |-> notifications, timers |-> timers], EmptyPromptError, "error")
            IN  /\ notifications' = st.notifications
                /\ timers' = st.timers
                /\ UNCHANGED <<prompt, palette, generatedScreens, logoImageUrl, isLoading, isGeneratingPalette, now,
                               genVars, paletteVars>>
       ELSE IF palette = NullObject
       THEN LET st == showNotification([notifications |-> notifications, timers |-> timers], NoPaletteError, "error")
            IN  /\ notifications' = st.notifications
                /\ timers' = st.timers
                /\ UNCHANGED <<prompt, palette, generatedScreens, logoImageUrl, isLoading, isGeneratingPalette, now,
                               genVars, paletteVars>>
       ELSE /\ isLoading' = TRUE
            /\ generation' = generation + 1
            /\ handleGeneratePc' = "awaiting"
            /\ extractReq' = "pending"
            /\ appScreens' = Pending
            /\ logoReq' = "pending"
            /\ screenNames' = <<>>
            /\ req' = <<>>
            /\ screenPromises' = <<>>
            /\ orphanExtracts' = orphanExtracts + (IF extractReq = "pending" THEN 1 ELSE 0)
            /\ orphanReqs' = orphanReqs + PendingRequests
            /\ sent' = [extract |-> 1, logo |-> 1, screens |-> <<>>]
            /\ UNCHANGED <<notifications, prompt, palette, generatedScreens, logoImageUrl, resultsOf,
                           isGeneratingPalette, now, timers, paletteVars>>

\* The user clicks "Generate Mockups" (disabled while isLoading).
HandleGenerate ==
    /\ ~isLoading
    /\ UNCHANGED editorVars
    /\ IF prompt = ""
       THEN LET st == showNotification([notifications |-> notifications, timers |-> timers], EmptyPromptError, "error")
            IN  /\ notifications' = st.notifications
                /\ timers' = st.timers
                /\ UNCHANGED <<prompt, palette, generatedScreens, logoImageUrl, isLoading, isGeneratingPalette, now,
                               genVars, paletteVars>>
       ELSE IF palette = NullObject
       THEN LET st == showNotification([notifications |-> notifications, timers |-> timers], NoPaletteError, "error")
            IN  /\ notifications' = st.notifications
                /\ timers' = st.timers
                /\ UNCHANGED <<prompt, palette, generatedScreens, logoImageUrl, isLoading, isGeneratingPalette, now,
                               genVars, paletteVars>>
       ELSE /\ isLoading' = TRUE
            /\ generatedScreens' = <<>>
            /\ logoImageUrl' = NULL
            /\ resultsOf' = 0
            /\ generation' = generation + 1
            /\ handleGeneratePc' = "awaiting"
            \* generateAppScreens runs up to its await of extractScreenNames,
            \* generateLogo up to its await of the model: both requests are out.
            /\ extractReq' = "pending"
            /\ appScreens' = Pending
            /\ logoReq' = "pending"
            /\ screenNames' = <<>>
            /\ req' = <<>>
            /\ screenPromises' = <<>>
            \* what an earlier call left in flight stays in flight, unobserved
            /\ orphanExtracts' = orphanExtracts + (IF extractReq = "pending" THEN 1 ELSE 0)
            /\ orphanReqs' = orphanReqs + PendingRequests
            /\ sent' = [extract |-> 1, logo |-> 1, screens |-> <<>>]
            /\ UNCHANGED <<notifications, prompt, palette, isGeneratingPalette, now, timers, paletteVars>>

\* extractScreenNames settles: it throws (transport error, unparsable JSON) or
\* resolves with a list; generateAppScreens goes on to its first await.
ExtractScreenNamesFails ==
    /\ extractReq = "pending"
    /\ UNCHANGED editorVars
    /\ extractReq' = "rejected"
    /\ appScreens' = Rejected(ExtractError)
    /\ HandleGenerateResume(appScreens', logoReq)
    /\ UNCHANGED <<prompt, palette, isGeneratingPalette, now, screenNames, req, screenPromises, logoReq,
                   orphanExtracts, orphanReqs, sent, generation, paletteVars>>

ExtractScreenNamesReturns(names) ==
    /\ extractReq = "pending"
    /\ UNCHANGED editorVars
    /\ extractReq' = "fulfilled"
    /\ screenNames' = names
    /\ appScreens' = AppScreensAfterExtract(appScreens, names)
    \* screenNames.map(async ...): every screen's three requests are issued
    /\ IF appScreens'.status = "rejected"
       THEN UNCHANGED <<req, screenPromises, sent>>
       ELSE /\ req' = [i \in 1..Len(names) |-> AllPending]
            /\ screenPromises' = [i \in 1..Len(names) |-> Pending]
            /\ sent' = [sent EXCEPT !.screens = [i \in 1..Len(names) |-> [k \in Kinds |-> 1]]]
    /\ HandleGenerateResume(appScreens', logoReq)
    /\ UNCHANGED <<prompt, palette, isGeneratingPalette, now, logoReq, orphanExtracts, orphanReqs, generation,
                   paletteVars>>

\* A variant that sends a rejected request once more before giving up on it.
ScreenRequestSettlesRetrying(i, kind, outcome) ==
    /\ i \in DOMAIN req
    /\ UNCHANGED editorVars
    /\ req[i][kind] = "pending"
    /\ IF outcome = "rejected" /\ sent.screens[i][kind] < 2
       THEN /\ sent' = [sent EXCEPT !.screens[i][kind] = @ + 1]
            /\ UNCHANGED <<uiVars, browserVars, paletteVars, handleGeneratePc, extractReq, screenNames, req,
                           screenPromises, appScreens, logoReq, orphanExtracts, orphanReqs, generation,
                           resultsOf>>
       ELSE /\ req' = [req EXCEPT ![i] = SettleRequest(@, kind, outcome)]
            /\ screenPromises' = [screenPromises EXCEPT ![i] = ScreenPromiseAll(@, req'[i], kind, screenNames[i])]
            /\ appScreens' = AppScreensAllSettled(appScreens, screenPromises')
            /\ HandleGenerateResume(appScreens', logoReq)
            /\ UNCHANGED <<prompt, palette, isGeneratingPalette, now, extractReq, screenNames, logoReq,
                           orphanExtracts, orphanReqs, sent, generation, paletteVars>>

\* The response to one per-screen request arrives (outcome "fulfilled"), or
\* the request fails or its response is unusable (outcome "rejected").
ScreenRequestSettles(i, kind, outcome) ==
    /\ i \in DOMAIN req
    /\ UNCHANGED editorVars
    /\ req[i][kind] = "pending"
    /\ req' = [req EXCEPT ![i] = SettleRequest(@, kind, outcome)]
    /\ screenPromises' = [screenPromises EXCEPT ![i] = ScreenPromiseAll(@, req'[i], kind, screenNames[i])]
    /\ appScreens' = AppScreensAllSettled(appScreens, screenPromises')
    /\ HandleGenerateResume(appScreens', logoReq)
    /\ UNCHANGED <<prompt, palette, isGeneratingPalette, now, extractReq, screenNames, logoReq,
                   orphanExtracts, orphanReqs, sent, generation, paletteVars>>

\* The logo request settles.
LogoSettles(outcome) ==
    /\ logoReq = "pending"
    /\ UNCHANGED editorVars
    /\ logoReq' = outcome
    /\ HandleGenerateResume(appScreens, logoReq')
    /\ UNCHANGED <<prompt, palette, isGeneratingPalette, now, extractReq, screenNames, req, screenPromises,
                   appScreens, orphanExtracts, orphanReqs, sent, generation, paletteVars>>

\* The user edits the description.
SetPrompt(p) ==
    /\ prompt # p
    /\ UNCHANGED editorVars
    /\ prompt' = p
    /\ UNCHANGED <<notifications, palette, generatedScreens, logoImageUrl, isLoading, isGeneratingPalette,
                   browserVars, genVars, paletteVars>>

\* ----------------------------------------------------- generateColorPalette
HexDigits == {"0", "1", "2", "3", "4", "5", "6", "7", "8", "9",
              "A", "B", "C", "D", "E", "F", "a", "b", "c", "d", "e", "f"}

\* String(v), which RegExp.prototype.test applies to its argument.
ToStringJS(v) ==
    IF v.type = "undefined" THEN <<"u", "n", "d", "e", "f", "i", "n", "e", "d">> ELSE v.chars

\* /^#[0-9A-F]{6}/i: the pattern without its end anchor.
isValidHexNoEndAnchor(color) ==
    LET s == ToStringJS(color)
    IN  /\ Len(s) >= 7
        /\ s[1] = "#"
        /\ \A i \in 2..7 : s[i] \in HexDigits

\* isValidHex: /^#[0-9A-F]{6}$/i.test(color).  Without the m flag ^ and $ match
\* only at the two ends of the input; with the i flag a-f match as A-F.
isValidHex(color) ==
    LET s == ToStringJS(color)
    IN  /\ Len(s) = 7
        /\ s[1] = "#"
        /\ \A i \in 2..7 : s[i] \in HexDigits

PaletteError == "Failed to generate a valid color palette from the AI."
PaletteSuccess == "Color palette generated successfully!"

\* A variant that returns the parsed palette without validating its fields.
generateColorPaletteUnvalidated(response) ==
    IF response.kind = "error" THEN Rejected(PaletteError)
    ELSE IF response.kind = "malformed" THEN Rejected(PaletteError)
    ELSE IF response.kind = "null" THEN Rejected(PaletteError)
    ELSE Fulfilled(response.json)

\* The try block of generateColorPalette once the response is in, and its
\* catch block: every throw inside (the transport's, JSON.parse's, the read of
\* a field of null, the validation's) leaves as the one rejection.
generateColorPalette(response) ==
    IF response.kind = "error" THEN Rejected(PaletteError)             \* generateContent threw
    ELSE IF response.kind = "malformed" THEN Rejected(PaletteError)    \* JSON.parse threw
    ELSE IF response.kind = "null" THEN Rejected(PaletteError)         \* palette.primary threw
    ELSE LET parsed == response.json
         IN  IF ~isValidHex(parsed.primary) \/ ~isValidHex(parsed.secondary) \/ ~isValidHex(parsed.accent)
             THEN Rejected(PaletteError)
             ELSE Fulfilled(parsed)

\* A variant of handleGeneratePalette that never raises its busy flag.
HandleGeneratePaletteNoBusyFlag ==
    /\ ~isGeneratingPalette
    /\ UNCHANGED editorVars
    /\ paletteReq' = [status |-> "pending", response |-> NULL]
    /\ palettePromise' = Pending
    /\ UNCHANGED <<notifications, prompt, palette, generatedScreens, logoImageUrl, isLoading,
                   isGeneratingPalette, browserVars, genVars>>

\* The user clicks "Generate Palette" (disabled while isGeneratingPalette).
HandleGeneratePalette ==
    /\ ~isGeneratingPalette
    /\ UNCHANGED editorVars
    /\ isGeneratingPalette' = TRUE
    /\ paletteReq' = [status |-> "pending", response |-> NULL]
    /\ palettePromise' = Pending
    /\ UNCHANGED <<notifications, prompt, palette, generatedScreens, logoImageUrl, isLoading,
                   browserVars, genVars>>

\* A variant without the finally block: the flag comes down on success only.
GenerateColorPaletteSettlesNoFinally(response) ==
    /\ paletteReq.status = "pending"
    /\ UNCHANGED editorVars
    /\ paletteReq' = [status |-> "settled", response |-> response]
    /\ palettePromise' = generateColorPalette(response)
    /\ LET st0 == [notifications |-> notifications, timers |-> timers]
           st == IF palettePromise'.status = "fulfilled"
                 THEN showNotification(st0, PaletteSuccess, "success")
                 ELSE showNotification(st0, IF palettePromise'.reason = ""
                                            THEN "Failed to generate color palette."
                                            ELSE palettePromise'.reason, "error")
       IN  /\ palette' = IF palettePromise'.status = "fulfilled" THEN palettePromise'.value ELSE palette
           /\ notifications' = st.notifications
           /\ timers' = st.timers
    /\ isGeneratingPalette' = (palettePromise'.status # "fulfilled")
    /\ UNCHANGED <<prompt, generatedScreens, logoImageUrl, isLoading, now, genVars>>

\* The response to the palette request arrives (or the request fails), and
\* handleGeneratePalette runs to its end.
GenerateColorPaletteSettles(response) ==
    /\ paletteReq.status = "pending"
    /\ UNCHANGED editorVars
    /\ paletteReq' = [status |-> "settled", response |-> response]
    /\ palettePromise' = generateColorPalette(response)
    /\ LET st0 == [notifications |-> notifications, timers |-> timers]
           st == IF palettePromise'.status = "fulfilled"
                 THEN showNotification(st0, PaletteSuccess, "success")
                 ELSE showNotification(st0, IF palettePromise'.reason = ""
                                            THEN "Failed to generate color palette."
                                            ELSE palettePromise'.reason, "error")
       IN  /\ palette' = IF palettePromise'.status = "fulfilled" THEN palettePromise'.value ELSE palette
           /\ notifications' = st.notifications
           /\ timers' = st.timers
    /\ isGeneratingPalette' = FALSE
    /\ UNCHANGED <<prompt, generatedScreens, logoImageUrl, isLoading, now, genVars>>

\* Texts the model may put in a palette field: valid colours in either case,
\* and near misses at each place the pattern constrains.
FieldTexts ==
    {Str(<<"#", "A", "7", "8", "B", "F", "A">>),
     Str(<<"#", "0", "9", "a", "f", "A", "F">>),
     Str(<<>>),
     Str(<<"#", "A", "7", "8", "B", "F">>),
     Str(<<"#", "A", "7", "8", "B", "F", "A", "0">>),
     Str(<<"#", "A", "7", "8", "B", "F", "A", "\n">>),
     Str(<<"A", "7", "8", "B", "F", "A", "0">>),
     Str(<<" ", "#", "A", "7", "8", "B", "F", "A">>),
     Str(<<"#", "G", "7", "8", "B", "F", "A">>),
     Str(<<"#", "A", "7", "8", "B", "F", "g">>),
     Str(<<"#", "#", "7", "8", "B", "F", "A">>),
     Undefined}

\* What can come back for the palette request.
PaletteResponses ==
    {[kind |-> "error"], [kind |-> "malformed"], [kind |-> "null"]}
    \cup {[kind |-> "json", json |-> [primary |-> a, secondary |-> b, accent |-> c]] :
            a \in FieldTexts, b \in FieldTexts, c \in FieldTexts}

\* ------------------------------------------------------------- image editor
EditPrompts == {"", "Add a retro, vintage filter."}

\* Files the user can pick or drop: an image, an empty image, and a text file.
Files ==
    {[name |-> "photo.png", type |-> [top |-> "image", sub |-> "png"], data |-> "iVBORw0KGgo"],
     [name |-> "empty.png", type |-> [top |-> "image", sub |-> "png"], data |-> ""],
     [name |-> "notes.txt", type |-> [top |-> "text", sub |-> "plain"], data |-> "aGVsbG8"]}
NoFile == NullObject

\* file.type.startsWith('image/')
IsImageType(type) == type.top = "image"

\* reader.result after readAsDataURL, as its pieces between commas; null when
\* the read failed.
DataUrl(file) ==
    [parts |-> <<"data:" \o file.type.top \o "/" \o file.type.sub \o ";base64", file.data>>]

\* base64ImageData.split(',')[1]
PureBase64(base64) == IF Len(base64.parts) >= 2 THEN base64.parts[2] ELSE ""

InvalidFileError == "Please select a valid image file."
EditInputError == "Please upload an image and provide an edit prompt."
InvalidBase64Error == "Invalid base64 image data provided."
SplitOfNullError == "Cannot read properties of null (reading 'split')"
EditError == "Failed to edit the image with the provided prompt."
EditSuccess == "Image successfully edited!"
\* The image bytes the model answers an edit request with: an edit of the
\* image that the request carried.
EditedBytes(request) == "UklGRiQAAABXRUJQ/" \o request.image.file.name

\* The user picks or drops a file (or cancels the picker: NoFile).
HandleImageSelect(file) ==
    /\ IF file # NoFile /\ IsImageType(file.type)
       THEN /\ fileReads' = Append(fileReads, file)
            /\ editedImage' = NULL
            /\ UNCHANGED <<notifications, timers>>
       ELSE LET st == showNotification([notifications |-> notifications, timers |-> timers], InvalidFileError, "error")
            IN  /\ notifications' = st.notifications
                /\ timers' = st.timers
                /\ UNCHANGED <<fileReads, editedImage>>
    /\ UNCHANGED <<prompt, palette, generatedScreens, logoImageUrl, isLoading, isGeneratingPalette, now,
                   genVars, paletteVars, originalImage, editPrompt, isEditing, edits>>

\* reader.onloadend of the k-th read in flight: it runs after a read that
\* succeeded (ok) and after one that failed, when reader.result is null.
FileReadEnds(k, ok) ==
    /\ k \in DOMAIN fileReads
    /\ fileReads' = SubSeq(fileReads, 1, k - 1) \o SubSeq(fileReads, k + 1, Len(fileReads))
    /\ originalImage' = [file |-> fileReads[k],
                         base64 |-> IF ok THEN DataUrl(fileReads[k]) ELSE NullObject,
                         mimeType |-> fileReads[k].type]
    /\ UNCHANGED <<uiVars, browserVars, genVars, paletteVars, editPrompt, editedImage, isEditing, edits>>

\* The "Generate Edit" button: disabled={isEditing || !originalImage}.
HandleImageEditEnabled == ~isEditing /\ originalImage # NullObject

\* The user clicks "Generate Edit".  editImage throws before any request when
\* the image data is null or has nothing after its first comma; the await of
\* the rejected promise then runs catch and finally in the same task.
HandleImageEdit ==
    /\ HandleImageEditEnabled
    /\ LET st0 == [notifications |-> notifications, timers |-> timers]
           thrown == IF originalImage.base64 = NullObject THEN SplitOfNullError
                     ELSE IF PureBase64(originalImage.base64) = "" THEN InvalidBase64Error
                     ELSE ""
           st == IF originalImage = NullObject \/ editPrompt = ""
                 THEN showNotification(st0, EditInputError, "error")
                 ELSE IF thrown # "" THEN showNotification(st0, thrown, "error")
                 ELSE st0
       IN  /\ notifications' = st.notifications
           /\ timers' = st.timers
           /\ IF originalImage = NullObject \/ editPrompt = ""
              THEN UNCHANGED <<isEditing, editedImage, edits>>
              ELSE /\ editedImage' = NULL
                   /\ IF thrown # ""
                      THEN isEditing' = FALSE /\ UNCHANGED edits
                      ELSE /\ isEditing' = TRUE
                           /\ edits' = Append(edits, [image |-> originalImage, prompt |-> editPrompt])
    /\ UNCHANGED <<prompt, palette, generatedScreens, logoImageUrl, isLoading, isGeneratingPalette, now,
                   genVars, paletteVars, originalImage, editPrompt, fileReads>>

\* The response to the k-th edit request in flight arrives (or the request
\* fails, or carries no image), and handleImageEdit runs to its end.
EditImageSettles(k, outcome) ==
    /\ k \in DOMAIN edits
    /\ edits' = SubSeq(edits, 1, k - 1) \o SubSeq(edits, k + 1, Len(edits))
    /\ LET st0 == [notifications |-> notifications, timers |-> timers]
           st == IF outcome = "fulfilled"
                 THEN showNotification(st0, EditSuccess, "success")
                 ELSE showNotification(st0, EditError, "error")
       IN  /\ notifications' = st.notifications
           /\ timers' = st.timers
    /\ editedImage' = IF outcome = "fulfilled" THEN ImageUrl(EditedBytes(edits[k])) ELSE editedImage
    /\ isEditing' = FALSE
    /\ UNCHANGED <<prompt, palette, generatedScreens, logoImageUrl, isLoading, isGeneratingPalette, now,
                   genVars, paletteVars, originalImage, editPrompt, fileReads>>

\* The user edits the edit prompt.
SetEditPrompt(p) ==
    /\ editPrompt # p
    /\ editPrompt' = p
    /\ UNCHANGED <<uiVars, browserVars, genVars, paletteVars, originalImage, editedImage, isEditing,
                   fileReads, edits>>

\* ------------------------------------------------------------ timers, clock
\* The oldest removal timer runs once its delay has passed (every timer has
\* the same delay, so they run in the order they were set).
TimerFires ==
    /\ timers # <<>>
    /\ Head(timers).due <= now
    /\ notifications' = removeNotification(notifications, Head(timers).id)
    /\ timers' = Tail(timers)
    /\ UNCHANGED <<prompt, palette, generatedScreens, logoImageUrl, isLoading, isGeneratingPalette, now,
                   genVars, paletteVars, editorVars>>

\* The user clicks the close button of the j-th notification shown.
DismissNotification(j) ==
    /\ j \in DOMAIN notifications
    /\ notifications' = removeNotification(notifications, notifications[j].id)
    /\ UNCHANGED <<prompt, palette, generatedScreens, logoImageUrl, isLoading, isGeneratingPalette,
                   browserVars, genVars, paletteVars, editorVars>>

\* Time passes between two tasks: a millisecond, or the delay of a timer.
TickSteps == {1, NotificationTimeout}
TicksTaken == (now \div NotificationTimeout) + (now % NotificationTimeout)
Tick(d) ==
    /\ TicksTaken < MaxTicks
    /\ now' = now + d
    /\ UNCHANGED <<uiVars, timers, genVars, paletteVars, editorVars>>

\* ------------------------------------- requests no call is waiting for any more
\* An extraction request of an earlier handleGenerate call returns: that
\* call's generateAppScreens goes on and issues its 3n requests, or throws.
OrphanExtractSettles(n) ==
    /\ orphanExtracts > 0
    /\ orphanExtracts' = orphanExtracts - 1
    /\ orphanReqs' = orphanReqs + 3 * n
    /\ UNCHANGED <<uiVars, browserVars, paletteVars, editorVars, handleGeneratePc, extractReq, screenNames,
                   req, screenPromises, appScreens, logoReq, sent, generation, resultsOf>>

\* An image, code or logo request of an earlier call settles, unobserved.
OrphanRequestSettles ==
    /\ orphanReqs > 0
    /\ orphanReqs' = orphanReqs - 1
    /\ UNCHANGED <<uiVars, browserVars, paletteVars, editorVars, handleGeneratePc, extractReq, screenNames,
                   req, screenPromises, appScreens, logoReq, orphanExtracts, sent, generation, resultsOf>>

\* ------------------------------------------------- the per-screen generators
\* Smallest length of a code text the generators accept.
MinCodeLength == 50

\* The backtick character (a string of the module cannot hold one).
Backtick == "U+0060"
Fence == <<Backtick, Backtick, Backtick>>
Whitespace == {" ", "\n", "\t"}
FenceTag(language) == IF language = "react" THEN <<"j", "s", "x">> ELSE <<"d", "a", "r", "t">>

\* A variant without the g flag: only the first match is removed.
RECURSIVE RemoveFirstFence(_, _)
RemoveFirstFence(chars, tag) ==
    IF Len(chars) < 3 THEN chars
    ELSE IF SubSeq(chars, 1, 3) = Fence
    THEN IF Len(chars) >= 3 + Len(tag) /\ SubSeq(chars, 4, 3 + Len(tag)) = tag
         THEN SubSeq(chars, 4 + Len(tag), Len(chars))
         ELSE SubSeq(chars, 4, Len(chars))
    ELSE <<Head(chars)>> \o RemoveFirstFence(Tail(chars), tag)

\* text.replace(/```jsx|```/g, '') (```dart for Flutter): one pass from the
\* left, each match removed, the search going on after the match.
RECURSIVE RemoveFences(_, _)
RemoveFences(chars, tag) ==
    IF Len(chars) < 3 THEN chars
    ELSE IF SubSeq(chars, 1, 3) = Fence
    THEN IF Len(chars) >= 3 + Len(tag) /\ SubSeq(chars, 4, 3 + Len(tag)) = tag
         THEN RemoveFences(SubSeq(chars, 4 + Len(tag), Len(chars)), tag)
         ELSE RemoveFences(SubSeq(chars, 4, Len(chars)), tag)
    ELSE <<Head(chars)>> \o RemoveFences(Tail(chars), tag)

\* String.prototype.trim
RECURSIVE Trim(_)
Trim(chars) ==
    IF chars = <<>> THEN chars
    ELSE IF Head(chars) \in Whitespace THEN Trim(Tail(chars))
    ELSE IF chars[Len(chars)] \in Whitespace THEN Trim(SubSeq(chars, 1, Len(chars) - 1))
    ELSE chars

\* rawCode of the two code generators.
RawCode(chars, language) == Trim(RemoveFences(chars, FenceTag(language)))

\* A variant of the sanity check that also refuses a text of the minimum length.
IsValidCodeAboveMinimum(rawCode) == ~(rawCode = <<>> \/ Len(rawCode) <= MinCodeLength)

\* The sanity check: !rawCode || rawCode.length < 50 throws.
IsValidCode(rawCode) == ~(rawCode = <<>> \/ Len(rawCode) < MinCodeLength)

\* screenName.replace(/[^a-zA-Z0-9]/g, '') for the names of the pool.
ComponentName(screenName) ==
    CASE screenName = "Login Screen" -> "LoginScreen"
      [] screenName = "User Dashboard" -> "UserDashboard"
      [] screenName = "Settings Page" -> "SettingsPage"
      [] screenName = "Profile Page" -> "ProfilePage"

\* rawCode.split('\n').map(line => `    ${line}`).join('\n')
RECURSIVE IndentLines(_)
IndentLines(chars) ==
    IF chars = <<>> THEN <<"    ">>
    ELSE LET front == IndentLines(SubSeq(chars, 1, Len(chars) - 1))
             last == chars[Len(chars)]
         IN  IF last = "\n" THEN front \o <<"\n", "    ">> ELSE Append(front, last)

\* The code strings the generators return, as the sequence of their pieces:
\* the pieces of the template, and the characters of rawCode one by one.
ReactSource(screenName, rawCode) ==
    <<"import React from 'react';\n\nconst ", ComponentName(screenName), " = () => {\n  return (\n">>
        \o IndentLines(rawCode)
        \o <<"\n  );\n};\n\nexport default ", ComponentName(screenName), ";\n">>
FlutterSource(rawCode) == <<"import 'package:flutter/material.dart';\n\n">> \o rawCode \o <<"\n">>

\* What the model answers to a request, and a request that fails in transport.
TransportError == [error |-> "fetch failed"]
ImagePart == [inlineData |-> [data |-> ImageBytes]]
TextPart == [text |-> "I cannot draw this screen."]

\* generateScreenImage once its request is answered.
generateScreenImage(screenName, response) ==
    IF "parts" \in DOMAIN response /\ response.parts # <<>> /\ "inlineData" \in DOMAIN response.parts[1]
    THEN Fulfilled(ImageUrl(response.parts[1].inlineData.data))
    ELSE Rejected(RequestError("image", screenName))

\* A variant of the code generators that lets the error of the sanity check
\* through instead of the message of the catch block.
generateScreenCodeRethrowing(language, screenName, response) ==
    IF "text" \in DOMAIN response /\ response.text.type = "string"
    THEN IF IsValidCode(RawCode(response.text.chars, language))
         THEN Fulfilled(IF language = "react"
                        THEN ReactSource(screenName, RawCode(response.text.chars, language))
                        ELSE FlutterSource(RawCode(response.text.chars, language)))
         ELSE Rejected("AI returned empty or invalid code.")
    ELSE Rejected(RequestError(language, screenName))

\* generateScreenCodeReact and generateScreenCodeFlutter once the request is
\* answered: every throw of the try block ends in the message of the catch.
generateScreenCode(language, screenName, response) ==
    IF "text" \in DOMAIN response /\ response.text.type = "string"
         /\ IsValidCode(RawCode(response.text.chars, language))
    THEN Fulfilled(IF language = "react"
                   THEN ReactSource(screenName, RawCode(response.text.chars, language))
                   ELSE FlutterSource(RawCode(response.text.chars, language)))
    ELSE Rejected(RequestError(language, screenName))

\* The generator of each kind of request.
Generator(kind, screenName, response) ==
    IF kind = "image" THEN generateScreenImage(screenName, response)
    ELSE generateScreenCode(kind, screenName, response)

\* The per-screen `await Promise.all([image, react, flutter])` and the record
\* returned after it, c being the screen's three promises after the one of
\* `kind` settled.
ScreenPromiseOf(p, c, kind, name) ==
    IF p.status # "pending" THEN p
    ELSE IF c[kind].status = "rejected" THEN Rejected(c[kind].reason)
    ELSE IF \A k \in Kinds : c[k].status = "fulfilled"
    THEN Fulfilled([title |-> name, imageUrl |-> c.image.value,
                    code |-> [react |-> c.react.value, flutter |-> c.flutter.value]])
    ELSE p

\* The model answers the request of `kind` for the i-th screen (or the request
\* fails): its generator settles, then the screen's Promise.all, then the
\* Promise.allSettled of the batch.
ResponseArrives(i, kind, response) ==
    /\ i \in DOMAIN extractedNames
    /\ calls[i][kind].status = "pending"
    /\ responses' = [responses EXCEPT ![i][kind] = response]
    /\ calls' = [calls EXCEPT ![i][kind] = Generator(kind, extractedNames[i], response)]
    /\ screenResults' = [screenResults EXCEPT ![i] = ScreenPromiseOf(@, calls'[i], kind, extractedNames[i])]
    /\ batch' = AppScreensAllSettled(batch, screenResults')
    /\ UNCHANGED <<extractedNames, codeText, cleaned>>
    /\ UNCHANGED <<uiVars, browserVars, genVars, paletteVars, editorVars, userActions>>

\* The clean-up of a code text, and of the cleaned text once more.
CleanUp ==
    /\ codeText # NullObject
    /\ cleaned = NullObject
    /\ cleaned' = [once |-> RawCode(codeText.text, codeText.language),
                   twice |-> RawCode(RawCode(codeText.text, codeText.language), codeText.language)]
    /\ UNCHANGED <<extractedNames, responses, calls, screenResults, batch, codeText>>
    /\ UNCHANGED <<uiVars, browserVars, genVars, paletteVars, editorVars, userActions>>

Outcomes == {"fulfilled", "rejected"}

\* The App as mounted.
AppInit ==
    /\ notifications = <<>>
    /\ prompt = DefaultPrompt
    /\ palette = InitialPalette
    /\ generatedScreens = <<>>
    /\ logoImageUrl = NULL
    /\ isLoading = FALSE
    /\ isGeneratingPalette = FALSE
    /\ now = 0
    /\ timers = <<>>
    /\ handleGeneratePc = "idle"
    /\ extractReq = "none"
    /\ screenNames = <<>>
    /\ req = <<>>
    /\ screenPromises = <<>>
    /\ appScreens = NotCalled
    /\ logoReq = "none"
    /\ orphanExtracts = 0
    /\ orphanReqs = 0
    /\ sent = [extract |-> 0, logo |-> 0, screens |-> <<>>]
    /\ generation = 0
    /\ resultsOf = 0
    /\ paletteReq = [status |-> "none", response |-> NULL]
    /\ palettePromise = NotCalled
    /\ originalImage = NullObject
    /\ editPrompt = ""
    /\ editedImage = NULL
    /\ isEditing = FALSE
    /\ fileReads = <<>>
    /\ edits = <<>>
    /\ userActions = 0

\* No batch is under way in the service layer, and no clean-up.
ServiceInit ==
    /\ extractedNames = <<>>
    /\ responses = <<>>
    /\ calls = <<>>
    /\ screenResults = <<>>
    /\ batch = NotCalled
    /\ codeText = NullObject
    /\ cleaned = NullObject

Init == AppInit /\ ServiceInit

\* A step of something already in flight leaves the count of user actions.
Background == UNCHANGED <<userActions, serviceVars>>

\* The user's first "Generate Mockups" and everything it starts; before it the
\* description may be edited, and the button clicked once on an empty one.
NextBatch ==
    \/ handleGeneratePc = "idle" /\ notifications = <<>> /\ HandleGenerate /\ Background
    \/ handleGeneratePc = "idle" /\ \E p \in Prompts : SetPrompt(p) /\ Background
    \/ ExtractScreenNamesFails /\ Background
    \/ \E names \in ExtractedLists : ExtractScreenNamesReturns(names) /\ Background
    \/ \E i \in 1..MaxScreens, kind \in Kinds, outcome \in Outcomes :
          ScreenRequestSettles(i, kind, outcome) /\ Background
    \/ \E outcome \in Outcomes : LogoSettles(outcome) /\ Background

SpecBatch == Init /\ [][NextBatch]_vars

\* The user's first "Generate Palette" and the response to its request.
NextPalette ==
    \/ palettePromise.status = "none" /\ HandleGeneratePalette /\ Background
    \/ \E response \in PaletteResponses : GenerateColorPaletteSettles(response) /\ Background

SpecPalette == Init /\ [][NextPalette]_vars

\* ------------------------------------------ one batch, with its responses
Repeat(c, n) == [i \in 1..n |-> c]

\* A code text inside a fence of the language, as the model tends to answer.
Fenced(language, chars) == Fence \o FenceTag(language) \o <<"\n">> \o chars \o <<"\n">> \o Fence

\* Code texts around the minimum length: nothing, one character short of the
\* minimum, and two lines that make up the minimum.
CodeTexts(language) ==
    {Fenced(language, <<>>),
     Fenced(language, Repeat("a", MinCodeLength - 1)),
     Fenced(language, Repeat("a", 24) \o <<"\n">> \o Repeat("b", MinCodeLength - 25))}

\* The answers to a request of each kind: a failed request, an answer that
\* lacks the image or the text, and answers that carry one.
Responses(kind) ==
    IF kind = "image"
    THEN {TransportError, [parts |-> <<>>], [parts |-> <<TextPart>>], [parts |-> <<ImagePart>>]}
    ELSE {TransportError, [text |-> Undefined]} \cup {[text |-> Str(t)] : t \in CodeTexts(kind)}

\* The non-empty lists of names of the batches followed answer by answer.
AnsweredLists == {list \in ExtractedLists : Len(list) \in 1..MaxAnsweredScreens}

\* generateAppScreens right after a non-empty extraction: the three requests
\* of every screen are issued and pending.
InitResponses ==
    /\ AppInit
    /\ \E list \in AnsweredLists :
          /\ extractedNames = list
          /\ responses = [i \in DOMAIN list |-> [k \in Kinds |-> NullObject]]
          /\ calls = [i \in DOMAIN list |-> [k \in Kinds |-> Pending]]
          /\ screenResults = [i \in DOMAIN list |-> Pending]
    /\ batch = Pending
    /\ codeText = NullObject
    /\ cleaned = NullObject

NextResponses ==
    \E i \in 1..MaxAnsweredScreens, kind \in Kinds : \E response \in Responses(kind) :
        ResponseArrives(i, kind, response)

SpecResponses == InitResponses /\ [][NextResponses]_vars

\* ------------------------------------------------ one text, and its clean-up
\* Every text of up to MaxTextLen characters over the characters of a fence.
CleanUpAlphabet(language) ==
    IF language = "react" THEN {Backtick, "j", "s", "x", " "} ELSE {Backtick, "d", "a", "r", "t"}
CleanUpTexts(language) == UNION {[1..n -> CleanUpAlphabet(language)] : n \in 0..MaxTextLen}

InitCleanUp ==
    /\ AppInit
    /\ extractedNames = <<>>
    /\ responses = <<>>
    /\ calls = <<>>
    /\ screenResults = <<>>
    /\ batch = NotCalled
    /\ \E language \in {"react", "flutter"} : \E text \in CleanUpTexts(language) :
          codeText = [language |-> language, text |-> text]
    /\ cleaned = NullObject

NextCleanUp == CleanUp

SpecCleanUp == InitCleanUp /\ [][NextCleanUp]_vars

\* ---------------------------------------------------------------- the App
\* In the interactive specification the model answers with at most one screen
\* name and with one of three palette responses.
InteractiveLists == {names \in ExtractedLists : Len(names) <= 1}
InteractivePaletteResponses ==
    {[kind |-> "error"],
     [kind |-> "json", json |-> [primary |-> Str(<<"#", "0", "9", "a", "f", "A", "F">>),
                                 secondary |-> Str(<<"#", "A", "7", "8", "B", "F", "A">>),
                                 accent |-> Str(<<"#", "A", "7", "8", "B", "F", "A">>)]],
     [kind |-> "json", json |-> [primary |-> Str(<<"#", "A", "7", "8", "B", "F">>),
                                 secondary |-> Str(<<"#", "A", "7", "8", "B", "F", "A">>),
                                 accent |-> Undefined]]}

\* A user action counts against the bound.
UserAction == userActions < MaxUserActions /\ userActions' = userActions + 1 /\ UNCHANGED serviceVars

Next ==
    \/ HandleGenerate /\ UserAction
    \/ \E p \in Prompts : SetPrompt(p) /\ UserAction
    \/ HandleGeneratePalette /\ UserAction
    \/ \E file \in Files \cup {NoFile} : HandleImageSelect(file) /\ UserAction
    \/ \E p \in EditPrompts : SetEditPrompt(p) /\ UserAction
    \/ HandleImageEdit /\ UserAction
    \/ \E j \in 1..(3 * MaxUserActions) : DismissNotification(j) /\ UserAction
    \/ ExtractScreenNamesFails /\ Background
    \/ \E names \in InteractiveLists : ExtractScreenNamesReturns(names) /\ Background
    \/ \E i \in 1..MaxScreens, kind \in Kinds, outcome \in Outcomes :
          ScreenRequestSettles(i, kind, outcome) /\ Background
    \/ \E outcome \in Outcomes : LogoSettles(outcome) /\ Background
    \/ \E n \in {Len(names) : names \in InteractiveLists} : OrphanExtractSettles(n) /\ Background
    \/ OrphanRequestSettles /\ Background
    \/ \E response \in InteractivePaletteResponses : GenerateColorPaletteSettles(response) /\ Background
    \/ \E k \in 1..MaxUserActions, ok \in BOOLEAN : FileReadEnds(k, ok) /\ Background
    \/ \E k \in 1..MaxUserActions, outcome \in Outcomes : EditImageSettles(k, outcome) /\ Background
    \/ TimerFires /\ Background
    \/ \E d \in TickSteps : Tick(d) /\ Background

Spec == Init /\ [][Next]_vars

\* ------------------------------------------- the three operations, to their end
\* The steps in which the answer to a request of an operation arrives.
ExtractSettles ==
    (ExtractScreenNamesFails \/ \E names \in InteractiveLists : ExtractScreenNamesReturns(names)) /\ Background
ScreenSettles ==
    (\E i \in 1..MaxScreens, kind \in Kinds, outcome \in Outcomes : ScreenRequestSettles(i, kind, outcome))
        /\ Background
LogoRequestSettles == (\E outcome \in Outcomes : LogoSettles(outcome)) /\ Background
PaletteSettles ==
    (\E response \in InteractivePaletteResponses : GenerateColorPaletteSettles(response)) /\ Background
EditSettles ==
    (\E k \in 1..MaxUserActions, outcome \in Outcomes : EditImageSettles(k, outcome)) /\ Background
FileReadSettles == (\E k \in 1..MaxUserActions, ok \in BOOLEAN : FileReadEnds(k, ok)) /\ Background

\* The user starts operations; every request sent is answered in the end.
NextOperations ==
    \/ HandleGenerate /\ UserAction
    \/ HandleGeneratePalette /\ UserAction
    \/ \E file \in Files \cup {NoFile} : HandleImageSelect(file) /\ UserAction
    \/ \E p \in EditPrompts : SetEditPrompt(p) /\ UserAction
    \/ HandleImageEdit /\ UserAction
    \/ ExtractSettles
    \/ ScreenSettles
    \/ LogoRequestSettles
    \/ PaletteSettles
    \/ EditSettles
    \/ FileReadSettles
    \/ \E n \in {Len(names) : names \in InteractiveLists} : OrphanExtractSettles(n) /\ Background
    \/ OrphanRequestSettles /\ Background

RequestsSettle ==
    /\ WF_vars(ExtractSettles)
    /\ WF_vars(ScreenSettles)
    /\ WF_vars(LogoRequestSettles)
    /\ WF_vars(PaletteSettles)
    /\ WF_vars(EditSettles)

SpecOperations == Init /\ [][NextOperations]_vars /\ RequestsSettle

\* --------------------------------------------- one operation after the other
\* Nothing is in flight: no handler is waiting and no request is out.
Quiet ==
    /\ handleGeneratePc # "awaiting"
    /\ extractReq # "pending"
    /\ PendingRequests = 0
    /\ paletteReq.status # "pending"
    /\ edits = <<>>
    /\ fileReads = <<>>

\* The lists of names answered to a user who takes one step at a time.
SequentialLists == {names \in ExtractedLists : Len(names) <= MaxAnsweredScreens}

\* The user acts only when nothing is in flight and starts one generation;
\* batches have up to MaxAnsweredScreens screens.
NextSequential ==
    \/ Quiet /\ handleGeneratePc = "idle" /\ HandleGenerate /\ UserAction
    \/ Quiet /\ (\E p \in Prompts : SetPrompt(p)) /\ UserAction
    \/ Quiet /\ HandleGeneratePalette /\ UserAction
    \/ Quiet /\ (\E file \in Files \cup {NoFile} : HandleImageSelect(file)) /\ UserAction
    \/ Quiet /\ (\E p \in EditPrompts : SetEditPrompt(p)) /\ UserAction
    \/ Quiet /\ HandleImageEdit /\ UserAction
    \/ ExtractScreenNamesFails /\ Background
    \/ \E names \in SequentialLists : ExtractScreenNamesReturns(names) /\ Background
    \/ ScreenSettles
    \/ LogoRequestSettles
    \/ PaletteSettles
    \/ EditSettles
    \/ FileReadSettles

SpecSequential == Init /\ [][NextSequential]_vars

\* ------------------------------------------------------- the image editor
\* Most user actions in a run of the editor alone.
MaxEditorActions == 5

\* A second image the user can pick.
OtherImage == [name |-> "banner.jpg", type |-> [top |-> "image", sub |-> "jpeg"], data |-> "/9j/4AAQSkZJRg"]
EditorFiles == Files \cup {OtherImage}

EditorAction == userActions < MaxEditorActions /\ userActions' = userActions + 1 /\ UNCHANGED serviceVars

NextEditor ==
    \/ \E file \in EditorFiles \cup {NoFile} : HandleImageSelect(file) /\ EditorAction
    \/ \E p \in EditPrompts : SetEditPrompt(p) /\ EditorAction
    \/ HandleImageEdit /\ EditorAction
    \/ \E k \in 1..MaxEditorActions, ok \in BOOLEAN : FileReadEnds(k, ok) /\ Background
    \/ \E k \in 1..MaxEditorActions, outcome \in Outcomes : EditImageSettles(k, outcome) /\ Background

SpecEditor == Init /\ [][NextEditor]_vars

\* ======================================================================
\* Properties of one batch (SpecBatch)
\* ======================================================================
NumScreens == Len(screenNames)
Screens == 1..NumScreens
BatchStarted == extractReq = "fulfilled" /\ NumScreens >= 1
AllFulfilled(i) == \A k \in Kinds : req[i][k] = "fulfilled"
AnyRejected(i) == \E k \in Kinds : req[i][k] = "rejected"
AllRejected(i) == \A k \in Kinds : req[i][k] = "rejected"
Resolved == appScreens.status = "fulfilled"
Successful == appScreens.value.successfulScreens
FailedReasons == appScreens.value.failedScreenReasons
ScreenErrors(i) == {RequestError(k, screenNames[i]) : k \in Kinds}
HasNotification(message, type) ==
    \E j \in DOMAIN notifications : notifications[j].message = message /\ notifications[j].type = type

\* C1: if every request of a batch of N >= 1 names fulfils, generateAppScreens
\* has resolved with exactly N screen records and no failure reason, and the
\* i-th record's title is the i-th extracted name, in whatever order the 3N
\* requests completed.
C1_AllSucceedInOrder ==
    (BatchStarted /\ \A i \in Screens : AllFulfilled(i)) =>
        /\ Resolved
        /\ Len(Successful) = NumScreens
        /\ FailedReasons = <<>>
        /\ \A i \in Screens : Successful[i].title = screenNames[i]

C1_Witness ==
    /\ BatchStarted /\ NumScreens = MaxScreens
    /\ \A i \in Screens : AllFulfilled(i)
    /\ Resolved

\* C2: in the result of generateAppScreens every extracted name has exactly
\* one entry: its screen record if and only if all three of its requests
\* fulfilled, otherwise exactly one reason; successes plus reasons number the
\* extracted names.
C2_OneEntryPerName ==
    (BatchStarted /\ Resolved) =>
        /\ Len(Successful) + Len(FailedReasons) = NumScreens
        /\ \A i \in Screens :
              LET records == {j \in DOMAIN Successful : Successful[j].title = screenNames[i]}
                  reasons == {j \in DOMAIN FailedReasons : FailedReasons[j] \in ScreenErrors(i)}
              IN  IF AllFulfilled(i)
                  THEN Cardinality(records) = 1 /\ reasons = {}
                  ELSE records = {} /\ Cardinality(reasons) = 1

C2_Witness ==
    /\ BatchStarted /\ Resolved /\ NumScreens = 2
    /\ AllFulfilled(1)
    /\ req[2].image = "fulfilled" /\ req[2].react = "rejected" /\ req[2].flutter = "rejected"

\* C3: when exactly one screen of a batch of N has rejecting requests (one, two
\* or all three of them) and every request of the other screens fulfilled,
\* generateAppScreens has resolved with N-1 successful screens and exactly one
\* failure reason.
C3_OneFailingScreen ==
    LET failing == {i \in Screens : AnyRejected(i)}
    IN  (BatchStarted /\ Cardinality(failing) = 1 /\ \A i \in Screens \ failing : AllFulfilled(i)) =>
            /\ Resolved
            /\ Len(Successful) = NumScreens - 1
            /\ Len(FailedReasons) = 1

C3_Witness ==
    /\ BatchStarted /\ NumScreens = 2
    /\ AllFulfilled(2)
    /\ AllRejected(1)
    /\ Resolved

\* C4 (as claimed): when every per-screen request of the batch rejected and
\* handleGenerate has completed, the user was shown the error "Failed to
\* generate any screens..." and generatedScreens is empty.
C4_AggregateErrorReported ==
    (BatchStarted /\ handleGeneratePc = "done" /\ \A i \in Screens : AllRejected(i)) =>
        /\ HasNotification(NoScreensGeneratedError, "error")
        /\ generatedScreens = <<>>

\* C5: once extraction returned a non-empty list, generateAppScreens never
\* rejects, whatever requests reject and in whatever order; it resolves as
\* soon as every screen has settled, and the result keeps the record of every
\* screen whose three requests fulfilled.
C5_BatchNeverRejects ==
    BatchStarted =>
        /\ appScreens.status # "rejected"
        /\ (\A i \in Screens : Settled(screenPromises[i])) => Resolved
        /\ Resolved => \A i \in Screens :
              AllFulfilled(i) => \E j \in DOMAIN Successful : Successful[j] = ScreenRecord(screenNames[i])

C5_Witness ==
    /\ BatchStarted /\ Resolved /\ NumScreens = 2
    /\ AllRejected(1)
    /\ AllFulfilled(2)
    /\ Len(Successful) = 1

\* C6 (as claimed): whenever at least one screen of the batch succeeded, after
\* handleGenerate has completed the displayed generatedScreens equals the
\* batch's successfulScreens.
C6_SuccessesDisplayed ==
    (handleGeneratePc = "done" /\ BatchStarted /\ Resolved /\ Len(Successful) > 0) =>
        generatedScreens = Successful

C9_RequestsIssued ==
    BatchStarted =>
        /\ DOMAIN req = Screens
        /\ \A i \in Screens, k \in Kinds :
              /\ req[i][k] \in {"pending", "fulfilled", "rejected"}
              /\ req[i][k] = "pending" => ENABLED ScreenRequestSettles(i, k, "fulfilled")

C9_RequestStep ==
    \A i \in DOMAIN req, k \in Kinds :
        (req[i][k] = "pending" /\ i \in DOMAIN req') =>
            \/ req'[i][k] = "pending"
            \/ /\ req'[i][k] \in {"fulfilled", "rejected"}
               /\ \A j \in DOMAIN req, l \in Kinds : <<j, l>> # <<i, k>> => req'[j][l] = req[j][l]

C9_NoCancellation == []C9_RequestsIssued /\ [][C9_RequestStep]_vars

\* The image request of a screen rejected first, and a sibling settled after it.
C9_Witness ==
    \E i \in Screens :
        /\ screenPromises[i].status = "rejected"
        /\ screenPromises[i].reason = RequestError("image", screenNames[i])
        /\ req[i].react = "rejected"
        /\ req[i].flutter = "fulfilled"


\* ======================================================================
\* Properties of generateColorPalette (SpecPalette)
\* ======================================================================
\* '#' followed by exactly six hexadecimal digits, in either case.
HexColor(v) ==
    /\ v.type = "string"
    /\ Len(v.chars) = 7
    /\ Head(v.chars) = "#"
    /\ Tail(v.chars) \in [1..6 -> HexDigits]

WellFormedResponse(response) ==
    /\ response.kind = "json"
    /\ HexColor(response.json.primary)
    /\ HexColor(response.json.secondary)
    /\ HexColor(response.json.accent)

SucceededInOrder == SelectSeq([i \in Screens |-> i], LAMBDA i : AllFulfilled(i))
FailedInOrder == SelectSeq([i \in Screens |-> i], LAMBDA i : AnyRejected(i))
C12_RelativeOrderKept ==
    (BatchStarted /\ Resolved) =>
        /\ Successful = [j \in DOMAIN SucceededInOrder |-> ScreenRecord(screenNames[SucceededInOrder[j]])]
        /\ Len(FailedReasons) = Len(FailedInOrder)
        /\ \A j \in DOMAIN FailedReasons : FailedReasons[j] \in ScreenErrors(FailedInOrder[j])

\* A batch of three in which the second screen succeeded and the other two
\* failed on different requests.
C12_Witness ==
    /\ BatchStarted /\ Resolved
    /\ NumScreens = 3
    /\ AllFulfilled(2)
    /\ Successful = <<ScreenRecord(screenNames[2])>>
    /\ FailedReasons = <<RequestError("flutter", screenNames[1]), RequestError("image", screenNames[3])>>

\* C13: one Generate action sends the extraction request and the logo request
\* once, sends no per-screen request unless names were extracted, and then
\* sends the image, React and Flutter request of every name exactly once, also
\* after requests rejected.
C13_EachRequestSentOnce ==
    /\ sent.extract = (IF handleGeneratePc = "idle" THEN 0 ELSE 1)
    /\ sent.logo = sent.extract
    /\ IF BatchStarted
       THEN /\ DOMAIN sent.screens = Screens
            /\ \A i \in Screens, k \in Kinds : sent.screens[i][k] = 1
       ELSE sent.screens = <<>>

\* Every request of a batch of two rejected, and each was sent once.
C13_Witness ==
    /\ BatchStarted /\ Resolved
    /\ NumScreens = 2
    /\ AllRejected(1) /\ AllRejected(2)
    /\ logoReq = "rejected"
    /\ \A i \in Screens, k \in Kinds : sent.screens[i][k] = 1

\* ======================================================================
\* Properties of the whole App (under Spec)

\* The asynchronous operations and callbacks of the App, the state variables
\* each one sets when it completes, and how many of each are in flight.
UiStateVariables ==
    {"generatedScreens", "logoImageUrl", "palette", "originalImage", "editedImage", "notifications",
     "isLoading", "isGeneratingPalette", "isEditing"}
WriteSet(op) ==
    CASE op = "handleGenerate" -> {"generatedScreens", "logoImageUrl", "notifications", "isLoading"}
      [] op = "handleGeneratePalette" -> {"palette", "notifications", "isGeneratingPalette"}
      [] op = "handleImageEdit" -> {"editedImage", "notifications", "isEditing"}
      [] op = "reader.onloadend" -> {"originalImage"}
      [] op = "setTimeout" -> {"notifications"}
InFlight(op) ==
    CASE op = "handleGenerate" -> IF handleGeneratePc = "awaiting" THEN 1 ELSE 0
      [] op = "handleGeneratePalette" -> IF paletteReq.status = "pending" THEN 1 ELSE 0
      [] op = "handleImageEdit" -> Len(edits)
      [] op = "reader.onloadend" -> Len(fileReads)
      [] op = "setTimeout" -> Len(timers)
Writes(op, v) == IF v \in WriteSet(op) THEN InFlight(op) ELSE 0
PendingWrites(v) ==
    Writes("handleGenerate", v) + Writes("handleGeneratePalette", v) + Writes("handleImageEdit", v)
        + Writes("reader.onloadend", v) + Writes("setTimeout", v)

\* C10 (as stated): in every reachable state no UI state variable has pending
\* writes from two asynchronous operations or callbacks in flight at once.
C10_NoTwoPendingWriters == \A v \in UiStateVariables : PendingWrites(v) <= 1

\* C10 (amended): the variables written only by a handler behind a busy flag
\* (generatedScreens, logoImageUrl, palette, editedImage and the three busy
\* flags) never have two pending writers, and each busy flag is up for as long
\* as its handler is in flight; notifications and originalImage are not
\* protected in this way.
GatedVariables == UiStateVariables \ {"notifications", "originalImage"}
C10_GatedVariablesSingleWriter ==
    /\ \A v \in GatedVariables : PendingWrites(v) <= 1
    /\ handleGeneratePc = "awaiting" => isLoading
    /\ paletteReq.status = "pending" => isGeneratingPalette
    /\ edits # <<>> => isEditing

\* Two handlers and a file read in flight at once: each gated variable has one
\* pending writer, notifications has two.
C10_Witness ==
    /\ handleGeneratePc = "awaiting"
    /\ paletteReq.status = "pending"
    /\ fileReads # <<>>
    /\ PendingWrites("generatedScreens") = 1
    /\ PendingWrites("palette") = 1
    /\ PendingWrites("notifications") >= 2

\* C17: a step in which an operation fails (in its validation, in its request
\* or in a part of its batch) appends at least one notification of type
\* 'error' with a message that is not empty, and appends a 'success' only for
\* the screens that were generated, naming their number.
NewNotifications == SubSeq(notifications', Len(notifications) + 1, Len(notifications'))
OnlyAppended ==
    /\ Len(notifications') >= Len(notifications)
    /\ SubSeq(notifications', 1, Len(notifications)) = notifications
GenerateCompletes == handleGeneratePc = "awaiting" /\ handleGeneratePc' = "done"
GenerateFails ==
    \/ HandleGenerate /\ prompt = ""
    \/ /\ GenerateCompletes
       /\ \/ appScreens'.status = "rejected"
          \/ logoReq' = "rejected"
          \/ appScreens'.status = "fulfilled" /\ Len(appScreens'.value.failedScreenReasons) > 0
PaletteFails ==
    paletteReq.status = "pending" /\ paletteReq'.status = "settled" /\ palettePromise'.status = "rejected"
EditFails ==
    \/ HandleImageEdit /\ edits' = edits
    \/ \E k \in DOMAIN edits : EditImageSettles(k, "rejected")
SuccessOfGeneratedScreens(n) ==
    /\ GenerateCompletes
    /\ appScreens'.status = "fulfilled" /\ logoReq' = "fulfilled"
    /\ Len(generatedScreens') > 0
    /\ generatedScreens' = appScreens'.value.successfulScreens
    /\ n.message = "Successfully generated " \o ToString(Len(generatedScreens')) \o " screen(s)!"
C17_FailureStep ==
    (GenerateFails \/ PaletteFails \/ EditFails) =>
        /\ OnlyAppended
        /\ \E j \in DOMAIN NewNotifications :
              NewNotifications[j].type = "error" /\ NewNotifications[j].message # ""
        /\ \A j \in DOMAIN NewNotifications :
              NewNotifications[j].type = "success" => SuccessOfGeneratedScreens(NewNotifications[j])
C17_FailuresNotified == [][C17_FailureStep]_vars

\* A batch of two ended with one screen generated and one failed: the success
\* names one screen, and the failure is shown as an error.
C17_Witness ==
    /\ handleGeneratePc = "done"
    /\ Resolved /\ NumScreens = 2
    /\ Len(generatedScreens) = 1 /\ Len(FailedReasons) = 1
    /\ HasNotification("Successfully generated 1 screen(s)!", "success")
    /\ HasNotification("Could not generate some screens: " \o FailedReasons[1], "error")

\* C18 (as claimed, its safety half): a step that removes a notification, by
\* its timer or by the user's dismissal, removes that notification and no
\* other one.
C18_RemovalStep == Len(notifications') < Len(notifications) => Len(notifications') = Len(notifications) - 1
C18_RemovesOnlyItself == [][C18_RemovalStep]_vars

\* C22 (as claimed): the notifications in the list carry pairwise distinct
\* ids, also when several were added within one task at one reading of the
\* clock.
C22_DistinctIds ==
    \A i, j \in DOMAIN notifications : i # j => notifications[i].id # notifications[j].id

\* C19 (as claimed): whenever isLoading is false no request of a generation is
\* in flight: neither the extraction, nor the logo, nor a per-screen request,
\* of the last handleGenerate call or of an earlier one.
C19_NoRequestWhenNotLoading ==
    ~isLoading => (extractReq # "pending" /\ PendingRequests = 0 /\ orphanExtracts = 0 /\ orphanReqs = 0)

\* ======================================================================
\* Properties of a batch and its responses (under SpecResponses)

\* The ways a request can fail, read off the response: the request itself
\* failed, the answer has no image data, the answer has no text, or its code is
\* shorter than the minimum once the fences and the blanks around it are gone.
TransportFails(response) == response = TransportError
ImageDataMissing(response) ==
    "parts" \in DOMAIN response /\ (response.parts = <<>> \/ "inlineData" \notin DOMAIN response.parts[1])
TextMissing(response) == "text" \in DOMAIN response /\ response.text.type # "string"
CodeTooShort(kind, response) ==
    /\ "text" \in DOMAIN response
    /\ response.text.type = "string"
    /\ Len(RawCode(response.text.chars, kind)) < MinCodeLength
ResponseFails(kind, response) ==
    \/ TransportFails(response)
    \/ kind = "image" /\ ImageDataMissing(response)
    \/ kind # "image" /\ (TextMissing(response) \/ CodeTooShort(kind, response))

Answered(i, k) == responses[i][k] # NullObject
BatchScreens == DOMAIN extractedNames
FailedScreens == SelectSeq([i \in BatchScreens |-> i], LAMBDA i : screenResults[i].status = "rejected")
SucceededScreens == SelectSeq([i \in BatchScreens |-> i], LAMBDA i : screenResults[i].status = "fulfilled")
BatchResolved == batch.status = "fulfilled"

\* C11: every request that fails, in whichever way, rejects with the message
\* of its kind that names its screen; and once the batch has resolved, each
\* entry of failedScreenReasons is the message of a rejected request of the
\* failed screen at its position, names that screen and no other screen.
C11_ReasonsAttributable ==
    /\ \A i \in BatchScreens, k \in Kinds :
          (Answered(i, k) /\ ResponseFails(k, responses[i][k])) =>
              /\ calls[i][k].status = "rejected"
              /\ calls[i][k].reason = RequestError(k, extractedNames[i])
    /\ BatchResolved =>
          LET reasons == batch.value.failedScreenReasons
          IN  /\ Len(reasons) = Len(FailedScreens)
              /\ \A j \in DOMAIN reasons :
                    /\ \E k \in Kinds : /\ calls[FailedScreens[j]][k].status = "rejected"
                                        /\ reasons[j] = calls[FailedScreens[j]][k].reason
                                        /\ reasons[j] = RequestError(k, extractedNames[FailedScreens[j]])
                    /\ \A i \in BatchScreens \ {FailedScreens[j]}, k \in Kinds :
                          reasons[j] # RequestError(k, extractedNames[i])

\* Two screens failed in different ways: a code text that is too short for the
\* first, an answer without image data for the second, a failed request too.
C11_Witness ==
    /\ BatchResolved
    /\ Len(extractedNames) = 2
    /\ Answered(1, "react") /\ CodeTooShort("react", responses[1].react)
    /\ Answered(2, "image") /\ ImageDataMissing(responses[2].image)
    /\ Answered(2, "flutter") /\ TransportFails(responses[2].flutter)
    /\ batch.value.failedScreenReasons =
          <<RequestError("react", extractedNames[1]), RequestError("image", extractedNames[2])>>

\* C14: a React or Flutter answer whose text is, after the clean-up, empty or
\* shorter than 50 characters rejects its request and with it the screen; one
\* of 50 characters or more fulfils the request; and the code of every screen
\* record is the clean code of its answer, of 50 characters or more.
CleanCode(i, k) == RawCode(responses[i][k].text.chars, k)
HasText(i, k) == Answered(i, k) /\ "text" \in DOMAIN responses[i][k] /\ responses[i][k].text.type = "string"
C14_MinimumCodeLength ==
    /\ \A i \in BatchScreens, k \in {"react", "flutter"} :
          HasText(i, k) =>
              IF Len(CleanCode(i, k)) < MinCodeLength
              THEN calls[i][k].status = "rejected" /\ screenResults[i].status = "rejected"
              ELSE calls[i][k].status = "fulfilled"
    /\ \A i \in BatchScreens :
          screenResults[i].status = "fulfilled" =>
              /\ HasText(i, "react") /\ HasText(i, "flutter")
              /\ Len(CleanCode(i, "react")) >= MinCodeLength
              /\ Len(CleanCode(i, "flutter")) >= MinCodeLength
              /\ screenResults[i].value.code.react = ReactSource(extractedNames[i], CleanCode(i, "react"))
              /\ screenResults[i].value.code.flutter = FlutterSource(CleanCode(i, "flutter"))
    /\ BatchResolved =>
          batch.value.successfulScreens = [j \in DOMAIN SucceededScreens |-> screenResults[SucceededScreens[j]].value]

\* One screen fails on a code text of 49 characters, the other is built from
\* code texts of exactly 50.
C14_Witness ==
    /\ BatchResolved
    /\ Len(extractedNames) = 2
    /\ HasText(1, "flutter") /\ Len(CleanCode(1, "flutter")) = MinCodeLength - 1
    /\ screenResults[1].status = "rejected"
    /\ screenResults[2].status = "fulfilled"
    /\ Len(CleanCode(2, "react")) = MinCodeLength /\ Len(CleanCode(2, "flutter")) = MinCodeLength
    /\ Len(batch.value.successfulScreens) = 1

\* ======================================================================
\* Properties of the clean-up of a code text (under SpecCleanUp)

\* The text has three backticks in a row.
HasFence(pieces) == \E i \in 1..(Len(pieces) - 2) : SubSeq(pieces, i, i + 2) = Fence

C16_FlagsWhileInFlight ==
    /\ isLoading = (handleGeneratePc = "awaiting")
    /\ isGeneratingPalette = (paletteReq.status = "pending")
    /\ isEditing = (edits # <<>>)
C16_BusyFlagsComeDown ==
    /\ []C16_FlagsWhileInFlight
    /\ isLoading ~> ~isLoading
    /\ isGeneratingPalette ~> ~isGeneratingPalette
    /\ isEditing ~> ~isEditing

\* A generation and a palette generation both failed and both flags are down.
C16_Witness ==
    /\ handleGeneratePc = "done" /\ ~isLoading
    /\ extractReq = "rejected"
    /\ paletteReq.status = "settled" /\ palettePromise.status = "rejected" /\ ~isGeneratingPalette
    /\ HasNotification(ExtractError, "error")
    /\ HasNotification(PaletteError, "error")

\* ======================================================================
\* Properties of the image editor (under SpecEditor)

\* C20 (as claimed): whenever editedImage is not null, it is the answer to an
\* edit request that carried the image now selected.
C20_EditOfSelectedImage ==
    editedImage # NULL =>
        /\ originalImage # NullObject
        /\ editedImage = ImageUrl(EditedBytes([image |-> originalImage]))

\* The steps in which a handler or editImage turns its input down: handleGenerate
\* an empty description, handleImageEdit an empty edit prompt (or no image),
\* editImage image data with nothing after its first comma.
GenerateInputRejected == HandleGenerate /\ prompt = ""
EditInputRejected == HandleImageEdit /\ (originalImage = NullObject \/ editPrompt = "")
EditImageDataRejected ==
    /\ HandleImageEdit
    /\ editPrompt # ""
    /\ originalImage.base64 # NullObject
    /\ PureBase64(originalImage.base64) = ""

NoRequestSent == UNCHANGED <<extractReq, logoReq, req, sent, orphanExtracts, orphanReqs, paletteReq, edits>>
ResultsKept == UNCHANGED <<generatedScreens, logoImageUrl, editedImage>>

\* C24 (as claimed): a step in which input validation fails sends no request
\* to the model and leaves generatedScreens, logoImageUrl and editedImage as
\* they were.
C24_ValidationStep ==
    (GenerateInputRejected \/ EditInputRejected \/ EditImageDataRejected) => (NoRequestSent /\ ResultsKept)
C24_RejectedInputChangesNothing == [][C24_ValidationStep]_vars

\* ======================================================================
\* Properties of successive generations (under SpecOperations)

\* The results on display: the screens and the logo.
ResultsEmpty == generatedScreens = <<>> /\ logoImageUrl = NULL
ResultsChange == generatedScreens' # generatedScreens \/ logoImageUrl' # logoImageUrl

\* A handleGenerate call passes its checks and starts a generation: no earlier
\* call is still waiting, and the results on display are cleared.
GenerationStarts == generation' = generation + 1
StartClearsResults == handleGeneratePc # "awaiting" /\ ResultsEmpty' /\ resultsOf' = 0

\* The results are written by the call started last, which was waiting for them.
LatestGenerationWrites ==
    /\ generation' = generation
    /\ handleGeneratePc = "awaiting" /\ handleGeneratePc' = "done"
    /\ resultsOf' = generation

C21_ResultsStep ==
    /\ GenerationStarts => StartClearsResults
    /\ (ResultsChange /\ ~GenerationStarts) => LatestGenerationWrites

\* C21: the screens and the logo on display are empty and null, or they are
\* the results of the generation started last; a generation starts only when
\* no earlier one is still to write, and clears what is on display; after
\* that only the generation started last writes results.
C21_LatestGenerationShown ==
    /\ [](~ResultsEmpty => (generation > 0 /\ resultsOf = generation))
    /\ [](resultsOf \in {0, generation})
    /\ [][C21_ResultsStep]_vars

\* The second generation has put its screen and its logo on display.
C21_Witness ==
    /\ generation = 2
    /\ resultsOf = 2
    /\ handleGeneratePc = "done"
    /\ Len(generatedScreens) = 1
    /\ logoImageUrl = ImageUrl(LogoBytes)

\* The palette of the UI is an object whose three colours are well formed.
PaletteIsValid ==
    /\ palette # NullObject
    /\ \A f \in {"primary", "secondary", "accent"} : HexColor(palette[f])

\* A palette generation ends in this step, with a palette or with a failure.
PaletteGenerationResolves ==
    paletteReq.status = "pending" /\ paletteReq'.status = "settled" /\ palettePromise'.status = "fulfilled"
PaletteGenerationFails ==
    paletteReq.status = "pending" /\ paletteReq'.status = "settled" /\ palettePromise'.status = "rejected"

C23_PaletteStep ==
    /\ palette' # palette => (PaletteGenerationResolves /\ palette' = palettePromise'.value)
    /\ PaletteGenerationFails => palette' = palette

=============================================================================
